---- MODULE Spec2Model ----
(* Event.js: an asynchronous event registry (on / off / trigger) built on a  *)
(* deferred scheduler. The registry is src/event/event.js; the scheduler is  *)
(* the `defer` function of src/unnamed/part_000.                             *)
EXTENDS Naturals, Sequences, FiniteSets

(***************************************************************************)
(* Bounds of the model.                                                    *)
(***************************************************************************)
\* Subscriptions stored, trigger calls made, and both together.
MaxOn == 3
MaxTrig == 2
MaxCalls == 4
\* The same, in the runs checked for what eventually happens.
MaxFairCalls == 3
\* The same, in the runs that also call with names of Object.prototype.
MaxProtoCalls == 2
\* The same, in the runs that call on two entities.
MaxTwoCalls == 3
\* The same, in the runs whose callbacks call on.
MaxReentrantCalls == 4
\* Messages delivered that defer did not post.
MaxStray == 1

(***************************************************************************)
(* JavaScript values that occur as arguments.                              *)
(***************************************************************************)
\* The value of an omitted argument. As a property key it is the string
\* "undefined", which is what the same string stands for in `events`.
Undefined == "undefined"
Null == "null"
\* A falsy value other than null and undefined (the number 0).
Zero == "0"
\* A value that is not a function.
NotFn == "notfn"
Functions == {"f", "g"}
EventNames == {"ready", "other"}
Contexts == {"ctx1", "ctx2"}

Falsy == {Undefined, Null, Zero}

\* typeof v === "function"
IsFunction(v) == v \in Functions

\* The arguments the calls are made with.
\* on(event, callback, context?)
OnArgs == {<<"ready", "f", "ctx1">>, <<"ready", "f", "ctx2">>, <<"ready", "g", "ctx1">>,
           <<"ready", "f", Undefined>>, <<"ready", "f", Zero>>,
           <<"other", "f", "ctx1">>, <<"ready", NotFn, "ctx1">>,
           <<"other", Undefined, Undefined>>}
\* off(), off(event), off(event, callback) and off(event, callback, context)
OffArgs == {<<Undefined, Undefined, Undefined>>}
             \cup (EventNames \X {Undefined} \X {Undefined})
             \cup (EventNames \X Functions \X {Undefined})
             \cup ({"ready"} \X Functions \X (Contexts \cup {Null, Zero}))
             \cup ({"other"} \X {"f"} \X Contexts)
             \cup {<<"ready", Undefined, "ctx1">>}

\* The arguments of the calls on the second entity.
OnArgs2 == {<<"ready", "f", "ctx1">>, <<"ready", "g", Undefined>>, <<"other", "f", "ctx1">>}
OffArgs2 == {<<Undefined, Undefined, Undefined>>, <<"ready", Undefined, Undefined>>,
             <<"ready", "f", Undefined>>, <<"ready", "f", "ctx1">>}

\* The environments the scheduler distinguishes when it is initialised.
Environments == {"nextTick", "postMessage", "setTimeout", "none"}

VARIABLES
  env,      \* the host environment the scheduler was initialised in
  events,   \* this.events: event name -> sequence of subscriptions
  events2,  \* this.events of a second entity
  foreign,  \* the names under which this.events holds a function of Object.prototype
  queue,    \* tasks handed to the scheduler and not yet run
  msgs,     \* "nextTick" messages posted by defer and not yet delivered
  log,      \* the invocations made so far, in order
  snap,     \* per trigger call: the event and its subscriptions at the call
  nOn,      \* number of subscriptions stored so far
  nStray,   \* number of foreign messages delivered so far
  last,     \* the last call or loop turn and its outcome
  budget    \* how many subscriptions and trigger calls the run may make

vars == <<env, events, events2, foreign, queue, msgs, log, snap, nOn, nStray, last, budget>>

\* `{}`: the object without properties.
EmptyObject == [k \in {} |-> <<>>]

\* this.events[event] || []
Subs(ev, event) == IF event \in DOMAIN ev THEN ev[event] ELSE <<>>

\* obj[key] = value
Put(ev, key, value) == [k \in DOMAIN ev \cup {key} |-> IF k = key THEN value ELSE ev[k]]

(***************************************************************************)
(* The deferred scheduler. Its state s is [queue, msgs, inv]: the pending  *)
(* tasks, the posted messages, and the invocations made so far in the      *)
(* current call or turn.                                                   *)
(***************************************************************************)
\* What the initialisation looks at in the host: process.nextTick, window and
\* window.postMessage.
Hosts == [nextTick : BOOLEAN, window : BOOLEAN, postMessage : BOOLEAN]

\* The mechanism the initialisation settles on in host h.
Mechanism(h) ==
  IF h.nextTick THEN "nextTick"
  ELSE IF h.window THEN (IF h.postMessage THEN "postMessage" ELSE "setTimeout")
  ELSE "none"

\* Mutant of DeferInitThrows: the initialisation never throws.
DeferInitThrows_Never(e) == FALSE

\* Whether initialising the scheduler in environment e throws.
DeferInitThrows(e) == e = "none"

\* Mutant of Defer: the task is called inside the submit call.
Defer_Synchronous(e, s, fn) ==
  [s EXCEPT !.inv = Append(s.inv, [callback |-> fn.callback, this |-> fn.context,
                                   trig |-> fn.trig, x |-> fn.x])]

\* Mutant of Defer: no message is posted while one is still outstanding.
Defer_Coalesces(e, s, fn) ==
  IF e = "postMessage"
    THEN [s EXCEPT !.queue = Append(s.queue, fn),
                   !.msgs = IF s.msgs = 0 THEN 1 ELSE s.msgs]
    ELSE [s EXCEPT !.queue = Append(s.queue, fn)]

\* defer(fn): the scheduler state after fn is submitted.
Defer(e, s, fn) ==
  IF e = "postMessage"
    THEN [s EXCEPT !.queue = Append(s.queue, fn), !.msgs = s.msgs + 1]
    ELSE [s EXCEPT !.queue = Append(s.queue, fn)]

\* defer.bind(callback, ctx): the task that invokes callback with ctx as `this`.
\* t and x name the trigger call and the loop index that made the task.
Bind(callback, ctx, t, x) == [callback |-> callback, context |-> ctx, trig |-> t, x |-> x]

\* Running a bound task: one invocation of its callback with its context as `this`.
Invoke(fn) == [callback |-> fn.callback, this |-> fn.context, trig |-> fn.trig, x |-> fn.x]

\* Mutant of RunNext: a task whose subscription has been removed since it was
\* submitted is taken from the queue and not called.
RunNext_DropsUnsubscribed(s) ==
  LET fn == Head(s.queue)
      live == \E k \in DOMAIN events : \E i \in 1..Len(events[k]) :
                events[k][i] = [callback |-> fn.callback, context |-> fn.context]
  IN IF live THEN [s EXCEPT !.queue = Tail(s.queue), !.inv = Append(s.inv, Invoke(fn))]
             ELSE [s EXCEPT !.queue = Tail(s.queue)]

\* Mutant of RunNext: after the task of the last subscription a trigger call
\* found, the iteration goes on over what the event holds by now.
RunNext_ContinuesLive(s) ==
  LET fn == Head(s.queue)
      subs == Subs(events, snap[fn.trig].event)
      more == fn.x = Len(snap[fn.trig].subs) /\ fn.x < Len(subs)
      rest == IF more
                THEN <<[callback |-> subs[fn.x + 1].callback,
                        context |-> subs[fn.x + 1].context,
                        trig |-> fn.trig, x |-> fn.x + 1]>>
                ELSE <<>>
  IN [s EXCEPT !.queue = Tail(s.queue) \o rest, !.inv = Append(s.inv, Invoke(fn))]

\* queue.shift()()
RunNext(s) == [s EXCEPT !.queue = Tail(s.queue), !.inv = Append(s.inv, Invoke(Head(s.queue)))]

\* Mutant of Handle: the source of the message is not looked at.
Handle_AnySource(s, source, data) ==
  IF data = "nextTick"
    THEN IF Len(s.queue) > 0 THEN RunNext(s) ELSE s
    ELSE s

\* handle(event) of the message-based scheduler.
Handle(s, source, data) ==
  IF source = "window" /\ data = "nextTick"
    THEN IF Len(s.queue) > 0 THEN RunNext(s) ELSE s
    ELSE s

(***************************************************************************)
(* The event registry.                                                     *)
(***************************************************************************)
\* Mutant of On: the event's entry is created before the callback is tested.
On_CreatesEntryFirst(ev, event, callback, context) ==
  IF ~IsFunction(callback)
    THEN [events |-> Put(ev, event, Subs(ev, event)), result |-> "this"]
    ELSE LET ctx == IF context \in Falsy THEN Null ELSE context
         IN [events |-> Put(ev, event, Append(Subs(ev, event),
                                            [callback |-> callback, context |-> ctx])),
             result |-> "this"]

\* EventMixin.prototype.on
On(ev, event, callback, context) ==
  IF ~IsFunction(callback)
    THEN [events |-> ev, result |-> "this"]
    ELSE LET ctx == IF context \in Falsy THEN Null ELSE context
         IN [events |-> Put(ev, event, Append(Subs(ev, event),
                                            [callback |-> callback, context |-> ctx])),
             result |-> "this"]

\* array.splice(x, 1) with x a 0-based index
Splice1(subs, x) == SubSeq(subs, 1, x) \o SubSeq(subs, x + 2, Len(subs))

\* Mutant of OffCallbackLoop: the loop runs forward, so the element that moves
\* into a spliced position is not examined.
RECURSIVE ForwardCallbackLoop(_, _, _)
ForwardCallbackLoop(subs, i, callback) ==
  IF i > Len(subs) THEN subs
  ELSE IF subs[i].callback = callback
         THEN ForwardCallbackLoop(Splice1(subs, i - 1), i + 1, callback)
         ELSE ForwardCallbackLoop(subs, i + 1, callback)

OffCallbackLoop_Forward(subs, x, callback) == ForwardCallbackLoop(subs, 1, callback)

\* The loop of off(event, callback): the code's x runs from length - 1 down
\* to 0; here x is the 1-based index of the same element.
RECURSIVE OffCallbackLoop(_, _, _)
OffCallbackLoop(subs, x, callback) ==
  IF x = 0 THEN subs
  ELSE IF subs[x].callback = callback
         THEN OffCallbackLoop(Splice1(subs, x - 1), x - 1, callback)
         ELSE OffCallbackLoop(subs, x - 1, callback)

\* Mutant of OffContextLoop: the context is not compared.
RECURSIVE OffContextLoop_AnyContext(_, _, _, _)
OffContextLoop_AnyContext(subs, x, callback, context) ==
  IF x = 0 THEN subs
  ELSE IF subs[x].callback = callback
         THEN OffContextLoop_AnyContext(Splice1(subs, x - 1), x - 1, callback, context)
         ELSE OffContextLoop_AnyContext(subs, x - 1, callback, context)

\* The loop of off(event, callback, context).
RECURSIVE OffContextLoop(_, _, _, _)
OffContextLoop(subs, x, callback, context) ==
  IF x = 0 THEN subs
  ELSE IF subs[x].callback = callback /\ subs[x].context = context
         THEN OffContextLoop(Splice1(subs, x - 1), x - 1, callback, context)
         ELSE OffContextLoop(subs, x - 1, callback, context)

\* Mutant of OffAll: the new object is not stored in this.events.
OffAll_KeepsEvents(ev) == [events |-> ev, result |-> "this"]

\* off(): this.events = {}
OffAll(ev) == [events |-> EmptyObject, result |-> "this"]

\* Mutant of OffEvent: every event's sequence is emptied.
OffEvent_EmptiesAll(ev, event) == [events |-> [k \in DOMAIN ev |-> <<>>], result |-> "this"]

\* off(event): this.events[event].splice(0, this.events[event].length)
OffEvent(ev, event) == [events |-> Put(ev, event, <<>>), result |-> "this"]

\* EventMixin.prototype.off
Off(ev, event, callback, context) ==
  IF callback = Undefined /\ context = Undefined /\ event = Undefined
    THEN OffAll(ev)
  ELSE IF event \notin DOMAIN ev
    \* this.events[event] is undefined: reading .splice or .length of it throws
    THEN [events |-> ev, result |-> "TypeError"]
  ELSE IF callback = Undefined /\ context = Undefined
    THEN OffEvent(ev, event)
  ELSE IF context = Undefined
    THEN [events |-> Put(ev, event, OffCallbackLoop(ev[event], Len(ev[event]), callback)),
          result |-> "this"]
  ELSE [events |-> Put(ev, event,
                       OffContextLoop(ev[event], Len(ev[event]), callback, context)),
        result |-> "this"]

\* Mutant of TriggerLoop: the loop stops one element early.
RECURSIVE TriggerLoop_StopsEarly(_, _, _, _, _)
TriggerLoop_StopsEarly(e, s, subs, x, t) ==
  IF x > Len(subs) - 1 THEN s
  ELSE IF IsFunction(subs[x].callback)
         THEN TriggerLoop_StopsEarly(e, Defer(e, s, Bind(subs[x].callback,
                                                          subs[x].context, t, x)),
                                     subs, x + 1, t)
         ELSE TriggerLoop_StopsEarly(e, s, subs, x + 1, t)

\* The loop of trigger: the code's x runs from 0 up to length - 1; here x is
\* the 1-based index of the same element.
RECURSIVE TriggerLoop(_, _, _, _, _)
TriggerLoop(e, s, subs, x, t) ==
  IF x > Len(subs) THEN s
  ELSE IF IsFunction(subs[x].callback)
         THEN TriggerLoop(e, Defer(e, s, Bind(subs[x].callback, subs[x].context, t, x)),
                          subs, x + 1, t)
         ELSE TriggerLoop(e, s, subs, x + 1, t)

\* Mutant of Trigger: the subscriptions handed over are taken out of the
\* registry.
Trigger_Consumes(e, ev, s, event, t) ==
  [events |-> Put(ev, event, <<>>),
   sched |-> TriggerLoop(e, s, Subs(ev, event), 1, t), result |-> "this"]

\* EventMixin.prototype.trigger
Trigger(e, ev, s, event, t) ==
  LET ev1 == Put(ev, event, Subs(ev, event))
  IN [events |-> ev1, sched |-> TriggerLoop(e, s, ev1[event], 1, t), result |-> "this"]

\* The entities: each is made by the constructor, which gives it a new object
\* as its events.
Entities == {"E", "E2"}

\* Mutant of SetEvents: the entities share one events object.
SetEvents_Shared(maps, this, ev) == [k \in DOMAIN maps |-> ev]

\* this.events = ev, and the changes made to the object this.events, seen in
\* the events of all entities.
SetEvents(maps, this, ev) == [maps EXCEPT ![this] = ev]

(***************************************************************************)
(* Event names that are names of properties of Object.prototype.           *)
(* this.events is made by `{}`, so this.events[event] with such a name and *)
(* no own property reads the inherited function, which is truthy and is    *)
(* taken for the event's entry. An own array can never be stored under     *)
(* such a name, because on throws before it pushes. fr is the set of these *)
(* names under which this.events has the function as its own property.     *)
(***************************************************************************)
Inherited == {"toString", "constructor"}

\* The length property of the inherited function: Object.prototype.toString
\* takes no argument, Object (the constructor) takes one.
FunctionLength(name) == IF name = "constructor" THEN 1 ELSE 0

\* on(name, callback, context) with an inherited name
OnInherited(fr, name, callback) ==
  IF ~IsFunction(callback)
    THEN [foreign |-> fr, result |-> "this"]
    \* this.events[name] = <the function>; its push is undefined: calling it throws
    ELSE [foreign |-> fr \cup {name}, result |-> "TypeError"]

\* trigger(name) with an inherited name: the loop runs over the function's
\* length, and reading .callback of its undefined element 0 throws.
TriggerInherited(fr, name) ==
  [foreign |-> fr \cup {name},
   result |-> IF FunctionLength(name) > 0 THEN "TypeError" ELSE "this"]

\* off(name), off(name, callback) and off(name, callback, context) with an
\* inherited name: the function has no splice, and its elements are undefined.
OffInherited(fr, name, callback, context) ==
  [foreign |-> fr,
   result |-> IF callback = Undefined /\ context = Undefined THEN "TypeError"
              ELSE IF FunctionLength(name) > 0 THEN "TypeError" ELSE "this"]

\* The scheduler's state at the start of a call or turn.
Sched == [queue |-> queue, msgs |-> msgs, inv |-> <<>>]

\* Number of subscriptions stored, over all events.
RECURSIVE SumLen(_, _)
SumLen(ev, K) ==
  IF K = {} THEN 0
  ELSE LET k == CHOOSE k \in K : TRUE IN Len(ev[k]) + SumLen(ev, K \ {k})

Total(ev) == SumLen(ev, DOMAIN ev)

\* What a call or a turn leaves in `last`.
Call(op, form, result, n, inv) ==
  [op |-> op, form |-> form, result |-> result, n |-> n, inv |-> inv]

\* Which of its four ways an off call takes.
OffForm(event, callback, context) ==
  IF callback = Undefined /\ context = Undefined /\ event = Undefined THEN "all"
  ELSE IF callback = Undefined /\ context = Undefined THEN "event"
  ELSE IF context = Undefined THEN "callback"
  ELSE "context"

(***************************************************************************)
(* The state machine.                                                      *)
(***************************************************************************)
InitWith(b) ==
  /\ budget = b
  /\ env \in Environments
  /\ events = EmptyObject
  /\ events2 = EmptyObject
  /\ foreign = {}
  /\ queue = <<>>
  /\ msgs = 0
  /\ log = <<>>
  /\ snap = <<>>
  /\ nOn = 0
  /\ nStray = 0
  /\ last = Call("init", "", "none", 0, <<>>)

Init == InitWith(MaxCalls)

\* The registry can be used only when the scheduler could be initialised.
Loaded == ~DeferInitThrows(env)

CallOn ==
  /\ Loaded
  /\ \E a \in OnArgs :
       LET r == On(events, a[1], a[2], a[3])
           n == Total(r.events) - Total(events) IN
         /\ nOn + n <= MaxOn
         /\ nOn + n + Len(snap) <= budget
         /\ events' = r.events
         /\ nOn' = nOn + n
         /\ last' = Call("on", IF IsFunction(a[2]) THEN "function" ELSE "other",
                         r.result, n, <<>>)
  /\ UNCHANGED <<budget, env, events2, foreign, queue, msgs, log, snap, nStray>>

CallOff ==
  /\ Loaded
  /\ \E a \in OffArgs :
       LET r == Off(events, a[1], a[2], a[3]) IN
         /\ events' = r.events
         /\ foreign' = IF OffForm(a[1], a[2], a[3]) = "all" THEN {} ELSE foreign
         /\ last' = Call("off", OffForm(a[1], a[2], a[3]), r.result,
                         Total(events) - Total(r.events), <<>>)
  /\ UNCHANGED <<budget, env, events2, queue, msgs, log, snap, nOn, nStray>>

CallTrigger ==
  /\ Loaded
  /\ Len(snap) < MaxTrig
  /\ nOn + Len(snap) < budget
  /\ \E event \in EventNames :
       LET t == Len(snap) + 1
           r == Trigger(env, events, Sched, event, t) IN
         /\ events' = r.events
         /\ queue' = r.sched.queue
         /\ msgs' = r.sched.msgs
         /\ log' = log \o r.sched.inv
         /\ snap' = Append(snap, [event |-> event, subs |-> Subs(events, event)])
         /\ last' = Call("trigger", "", r.result,
                         Len(r.sched.queue) - Len(queue), r.sched.inv)
  /\ UNCHANGED <<budget, env, events2, foreign, nOn, nStray>>

\* A turn of the host's loop runs the next task given to process.nextTick.
Tick ==
  /\ env = "nextTick"
  /\ queue # <<>>
  /\ LET s == RunNext(Sched) IN
       /\ queue' = s.queue
       /\ log' = log \o s.inv
       /\ last' = Call("turn", "", "none", 0, s.inv)
  /\ UNCHANGED <<budget, env, events2, events, foreign, msgs, snap, nOn, nStray>>

\* A turn of the host's loop runs the next timer set by setTimeout(fn, 0).
Timeout ==
  /\ env = "setTimeout"
  /\ queue # <<>>
  /\ LET s == RunNext(Sched) IN
       /\ queue' = s.queue
       /\ log' = log \o s.inv
       /\ last' = Call("turn", "", "none", 0, s.inv)
  /\ UNCHANGED <<budget, env, events2, events, foreign, msgs, snap, nOn, nStray>>

\* The host delivers a message that defer posted.
Message ==
  /\ env = "postMessage"
  /\ msgs > 0
  /\ LET s == Handle([Sched EXCEPT !.msgs = msgs - 1], "window", "nextTick") IN
       /\ queue' = s.queue
       /\ msgs' = s.msgs
       /\ log' = log \o s.inv
       /\ last' = Call("turn", "", "none", 0, s.inv)
  /\ UNCHANGED <<budget, env, events2, events, foreign, snap, nOn, nStray>>

\* The host delivers a message that some other code posted.
StrayMessage ==
  /\ env = "postMessage"
  /\ nStray < MaxStray
  /\ \E source \in {"window", "frame"}, data \in {"nextTick", "hello"} :
       LET s == Handle(Sched, source, data) IN
         /\ queue' = s.queue
         /\ msgs' = s.msgs
         /\ log' = log \o s.inv
         /\ last' = Call("stray", "", "none", 0, s.inv)
  /\ nStray' = nStray + 1
  /\ UNCHANGED <<budget, env, events2, events, foreign, snap, nOn>>

\* on, trigger and off called with the name of a property of Object.prototype.
CallOnInherited ==
  /\ Loaded
  /\ \E name \in Inherited, callback \in {"f", NotFn} :
       LET r == OnInherited(foreign, name, callback) IN
         /\ foreign' = r.foreign
         /\ last' = Call("on", "inherited", r.result, 0, <<>>)
  /\ UNCHANGED <<budget, env, events2, events, queue, msgs, log, snap, nOn, nStray>>

CallTriggerInherited ==
  /\ Loaded
  /\ \E name \in Inherited :
       LET r == TriggerInherited(foreign, name) IN
         /\ foreign' = r.foreign
         /\ last' = Call("trigger", "inherited", r.result, 0, <<>>)
  /\ UNCHANGED <<budget, env, events2, events, queue, msgs, log, snap, nOn, nStray>>

CallOffInherited ==
  /\ Loaded
  /\ \E name \in Inherited, callback \in {Undefined, "f"} :
       LET r == OffInherited(foreign, name, callback, Undefined) IN
         /\ foreign' = r.foreign
         /\ last' = Call("off", "inherited", r.result, 0, <<>>)
  /\ UNCHANGED <<budget, env, events2, events, queue, msgs, log, snap, nOn, nStray>>

\* A turn of the host's loop runs the next task, and the callback it invokes
\* calls on for the event that was triggered.
TurnOn ==
  /\ Loaded
  /\ queue # <<>>
  /\ env = "postMessage" => msgs > 0
  /\ \E cb \in Functions :
       LET s == IF env = "postMessage"
                  THEN Handle([Sched EXCEPT !.msgs = msgs - 1], "window", "nextTick")
                  ELSE RunNext(Sched)
           r == On(events, snap[Head(queue).trig].event, cb, "ctx1") IN
         /\ nOn + 1 <= MaxOn
         /\ nOn + 1 + Len(snap) <= budget
         /\ events' = r.events
         /\ nOn' = nOn + 1
         /\ queue' = s.queue
         /\ msgs' = s.msgs
         /\ log' = log \o s.inv
         /\ last' = Call("turn", "on", "none", 1, s.inv)
  /\ UNCHANGED <<budget, env, events2, foreign, snap, nStray>>

\* The events of the two entities.
Maps == [E |-> events, E2 |-> events2]

\* on, off and trigger called on the second entity.
CallOn2 ==
  /\ Loaded
  /\ \E a \in OnArgs2 :
       LET r == On(Maps["E2"], a[1], a[2], a[3])
           n == Total(r.events) - Total(events2)
           m == SetEvents(Maps, "E2", r.events) IN
         /\ nOn + n <= MaxOn
         /\ nOn + n + Len(snap) <= budget
         /\ events' = m["E"]
         /\ events2' = m["E2"]
         /\ nOn' = nOn + n
         /\ last' = Call("on2", IF IsFunction(a[2]) THEN "function" ELSE "other",
                         r.result, n, <<>>)
  /\ UNCHANGED <<budget, env, foreign, queue, msgs, log, snap, nStray>>

CallOff2 ==
  /\ Loaded
  /\ \E a \in OffArgs2 :
       LET r == Off(Maps["E2"], a[1], a[2], a[3])
           m == SetEvents(Maps, "E2", r.events) IN
         /\ events' = m["E"]
         /\ events2' = m["E2"]
         /\ last' = Call("off2", OffForm(a[1], a[2], a[3]), r.result,
                         Total(events2) - Total(r.events), <<>>)
  /\ UNCHANGED <<budget, env, foreign, queue, msgs, log, snap, nOn, nStray>>

CallTrigger2 ==
  /\ Loaded
  /\ Len(snap) < MaxTrig
  /\ nOn + Len(snap) < budget
  /\ \E event \in EventNames :
       LET t == Len(snap) + 1
           r == Trigger(env, Maps["E2"], Sched, event, t)
           m == SetEvents(Maps, "E2", r.events) IN
         /\ events' = m["E"]
         /\ events2' = m["E2"]
         /\ queue' = r.sched.queue
         /\ msgs' = r.sched.msgs
         /\ log' = log \o r.sched.inv
         /\ snap' = Append(snap, [event |-> event, subs |-> Subs(events2, event)])
         /\ last' = Call("trigger2", "", r.result,
                         Len(r.sched.queue) - Len(queue), r.sched.inv)
  /\ UNCHANGED <<budget, env, foreign, nOn, nStray>>

Next == CallOn \/ CallOff \/ CallTrigger \/ Tick \/ Timeout \/ Message \/ StrayMessage

Spec == Init /\ [][Next]_vars

\* The host's loop keeps taking turns while work is pending.
FairSpec ==
  /\ InitWith(MaxFairCalls)
  /\ [][Next]_vars
  /\ WF_vars(Tick) /\ WF_vars(Timeout) /\ WF_vars(Message)

\* The same calls, and on called from inside the callbacks.
ReentrantNext == Next \/ TurnOn

ReentrantSpec == InitWith(MaxReentrantCalls) /\ [][ReentrantNext]_vars

\* The calls on two entities, in any interleaving.
TwoNext == Next \/ CallOn2 \/ CallOff2 \/ CallTrigger2

TwoSpec == InitWith(MaxTwoCalls) /\ [][TwoNext]_vars

\* The same calls, and those with inherited names.
ProtoNext == Next \/ CallOnInherited \/ CallTriggerInherited \/ CallOffInherited

ProtoSpec == InitWith(MaxProtoCalls) /\ [][ProtoNext]_vars

(***************************************************************************)
(* Properties.                                                             *)
(***************************************************************************)
\* A subscription as `on` stores it.
Sub(callback, context) == [callback |-> callback, context |-> context]

\* The invocation of entry x of trigger call t, as recorded at the call.
Expected(t, x) ==
  [callback |-> snap[t].subs[x].callback, this |-> snap[t].subs[x].context,
   trig |-> t, x |-> x]

\* How many times entry x of trigger call t has been invoked / is pending.
Invoked(t, x) == Cardinality({i \in 1..Len(log) : log[i].trig = t /\ log[i].x = x})
Pending(t, x) == Cardinality({i \in 1..Len(queue) : queue[i].trig = t /\ queue[i].x = x})

\* The entries of the trigger calls made so far.
Entries == {tx \in (1..Len(snap)) \X (1..MaxOn) : tx[2] <= Len(snap[tx[1]].subs)}

\* ev2 differs from ev1 at most in the entry of `event`.
OthersUnchanged(ev1, ev2, event) ==
  \A k \in (DOMAIN ev1 \cup DOMAIN ev2) \ {event} :
    k \in DOMAIN ev1 /\ k \in DOMAIN ev2 /\ ev2[k] = ev1[k]

\* The tasks a trigger of `event` would hand to the scheduler now.
Handed(ev, event) ==
  LET r == Trigger(env, ev, Sched, event, Len(snap) + 1)
  IN SubSeq(r.sched.queue, Len(queue) + 1, Len(r.sched.queue))

\* C1 (safety part): every entry stored under the event at a trigger call is
\* either still pending or has been invoked, once in all, and every
\* invocation is of the entry's callback with the entry's context as `this`;
\* nothing else is pending or invoked.
C1_Once ==
  /\ \A tx \in Entries : Invoked(tx[1], tx[2]) + Pending(tx[1], tx[2]) = 1
  /\ \A i \in 1..Len(log) :
       /\ <<log[i].trig, log[i].x>> \in Entries
       /\ log[i] = Expected(log[i].trig, log[i].x)
  /\ \A i \in 1..Len(queue) : <<queue[i].trig, queue[i].x>> \in Entries

\* C1: for every trigger call, each subscription entry stored under the event
\* at the call is eventually invoked, exactly once, bound to the context
\* recorded for the entry; entries count one by one, duplicates included.
C1_EachEntryInvokedOnce ==
  /\ []C1_Once
  /\ \A t \in 1..MaxTrig : \A x \in 1..MaxOn :
       [](<<t, x>> \in Entries => <>(Invoked(t, x) = 1))

\* C1 witness: the same (callback, context) pair was registered twice under
\* "ready", one trigger was made, and exactly two invocations have happened.
C1_Witness ==
  /\ snap = <<[event |-> "ready", subs |-> <<Sub("f", "ctx1"), Sub("f", "ctx1")>>]>>
  /\ queue = <<>>
  /\ log = <<[callback |-> "f", this |-> "ctx1", trig |-> 1, x |-> 1],
             [callback |-> "f", this |-> "ctx1", trig |-> 1, x |-> 2]>>

\* C2: no callback is invoked during a trigger call: the call only adds to
\* the scheduler's queue. Invocations happen in later loop turns only, and
\* only of tasks of trigger calls that had returned before the turn.
C2_NoInvocationInsideTrigger ==
  [][/\ last'.op \in {"on", "off", "trigger"} => (log' = log /\ last'.inv = <<>>)
     /\ Len(log') > Len(log) =>
          /\ last'.op \in {"turn", "stray"}
          /\ \A i \in (Len(log) + 1)..Len(log') : log'[i].trig <= Len(snap)]_vars

\* C2 witness: a trigger call has just handed two tasks to the scheduler and
\* nothing has been invoked.
C2_Witness ==
  /\ last.op = "trigger" /\ last.n = 2
  /\ Len(queue) = 2
  /\ log = <<>>

\* C3: right after off() without arguments no event has a subscriber, and a
\* trigger of any event hands nothing to the scheduler.
C3_OffAllClearsEverything ==
  (last.op = "off" /\ last.form = "all") =>
    /\ \A e \in EventNames : Subs(events, e) = <<>>
    /\ \A e \in EventNames : Handed(events, e) = <<>>

\* C3 witness: off() has just removed three subscriptions.
C3_Witness ==
  /\ last.op = "off" /\ last.form = "all" /\ last.n = 3
  /\ events = EmptyObject

\* C4: off(event) empties the event's sequence and leaves every other
\* event's sequence as it was, so a trigger of another event still hands one
\* task per subscriber of that event to the scheduler.
C4_OffEventOnlyThatEvent ==
  \A e \in EventNames :
    LET r == Off(events, e, Undefined, Undefined) IN
      /\ Subs(r.events, e) = <<>>
      /\ OthersUnchanged(events, r.events, e)
      /\ \A k \in EventNames \ {e} :
           Len(Handed(r.events, k)) = Len(Subs(events, k))

\* C4 witness: off(event) has just removed two subscriptions of one event
\* while another event keeps its subscriber.
C4_Witness ==
  /\ last.op = "off" /\ last.form = "event" /\ last.n = 2
  /\ "ready" \in DOMAIN events /\ events["ready"] = <<>>
  /\ "other" \in DOMAIN events /\ Len(events["other"]) = 1

\* C5: off(event, callback) leaves under the event exactly the subscriptions
\* whose callback is another one, in their order, whatever their contexts,
\* and leaves every other event as it was.
C5_OffCallbackRemovesAllMatches ==
  \A e \in EventNames : \A cb \in Functions :
    LET r == Off(events, e, cb, Undefined)
        Keep(s) == s.callback # cb
    IN /\ Subs(r.events, e) = SelectSeq(Subs(events, e), Keep)
       /\ OthersUnchanged(events, r.events, e)

\* C5 witness: "ready" held f with ctx1, f with ctx2 (adjacent) and g when it
\* was triggered; off("ready", f) has since removed both f entries.
C5_Witness ==
  /\ snap = <<[event |-> "ready",
               subs |-> <<Sub("f", "ctx1"), Sub("f", "ctx2"), Sub("g", "ctx1")>>]>>
  /\ last.op = "off" /\ last.form = "callback" /\ last.n = 2
  /\ events["ready"] = <<Sub("g", "ctx1")>>

\* C6: off(event, callback, context) leaves under the event exactly the
\* subscriptions that differ from the arguments in callback or in context,
\* in their order, and leaves every other event as it was. After
\* on("ready", f, ctx1), on("ready", f, ctx2), off("ready", f, ctx1), a
\* trigger of "ready" hands over the ctx2-bound f only.
C6_OffContextRemovesExactMatches ==
  /\ \A a \in OffArgs :
       OffForm(a[1], a[2], a[3]) = "context" =>
         LET r == Off(events, a[1], a[2], a[3])
             Keep(s) == ~(s.callback = a[2] /\ s.context = a[3])
         IN /\ Subs(r.events, a[1]) = SelectSeq(Subs(events, a[1]), Keep)
            /\ OthersUnchanged(events, r.events, a[1])
  /\ LET e1 == On(EmptyObject, "ready", "f", "ctx1").events
         e2 == On(e1, "ready", "f", "ctx2").events
         e3 == Off(e2, "ready", "f", "ctx1").events
         h == Handed(e3, "ready")
     IN Len(h) = 1 /\ h[1].callback = "f" /\ h[1].context = "ctx2"

\* C6 witness: "ready" held f with ctx1 and f with ctx2 at a first trigger
\* and f with ctx2 alone at a second one, whose task has been invoked.
C6_Witness ==
  /\ snap = <<[event |-> "ready", subs |-> <<Sub("f", "ctx1"), Sub("f", "ctx2")>>],
              [event |-> "ready", subs |-> <<Sub("f", "ctx2")>>]>>
  /\ \E i \in 1..Len(log) :
       log[i] = [callback |-> "f", this |-> "ctx2", trig |-> 2, x |-> 1]

\* C7 (as claimed): an off call that names an event, made before any
\* subscription or trigger, returns the entity and leaves the registry as
\* it was.
C7_OffUnknownEventReturns ==
  (last.op = "off" /\ last.form # "all" /\ nOn = 0 /\ snap = <<>>) =>
    (last.result = "this" /\ events = EmptyObject)

\* C8: on with a callback that is not a function changes nothing in the
\* registry, the presence of the event's entry included, and returns the
\* entity.
C8_OnNonFunctionIsNoOp ==
  \A a \in OnArgs :
    ~IsFunction(a[2]) =>
      LET r == On(events, a[1], a[2], a[3])
      IN r.events = events /\ r.result = "this"

\* C8 witness: on was just called with a non-function while "ready" had no
\* entry and "other" had a subscriber.
C8_Witness ==
  /\ last.op = "on" /\ last.form = "other" /\ last.result = "this" /\ last.n = 0
  /\ DOMAIN events = {"other"}
  /\ Len(events["other"]) = 1

\* C9 (as claimed): a second off call with the arguments of the first leaves
\* the registry as the first left it and raises no error.
C9_OffIdempotent ==
  \A a \in OffArgs :
    LET r1 == Off(events, a[1], a[2], a[3])
        r2 == Off(r1.events, a[1], a[2], a[3])
    IN r2.events = r1.events /\ r2.result = "this"

\* C10: an off call leaves the scheduler as it is; a task leaves the queue
\* only by being invoked, one task per turn, whether or not its subscription
\* is still registered; a trigger hands over the subscriptions registered at
\* its call and no others; and every pending task whose subscription has been
\* removed is eventually invoked, once.
C10_Step ==
  /\ last'.op = "off" => (queue' = queue /\ msgs' = msgs /\ log' = log)
  /\ Len(queue') < Len(queue) =>
       /\ queue' = Tail(queue)
       /\ log' = Append(log, [callback |-> Head(queue).callback,
                              this |-> Head(queue).context,
                              trig |-> Head(queue).trig, x |-> Head(queue).x])
  /\ last'.op = "trigger" =>
       LET e == snap'[Len(snap')].event
           subs == Subs(events, e)
       IN queue' = queue \o [x \in 1..Len(subs) |->
                               [callback |-> subs[x].callback, context |-> subs[x].context,
                                trig |-> Len(snap'), x |-> x]]

\* Entry x of trigger call t is pending and no longer registered.
Unsubscribed(t, x) ==
  /\ <<t, x>> \in Entries
  /\ Pending(t, x) = 1
  /\ \A i \in 1..Len(Subs(events, snap[t].event)) :
       Subs(events, snap[t].event)[i] # snap[t].subs[x]

C10_OffDoesNotCancelPending ==
  /\ [][C10_Step]_vars
  /\ \A t \in 1..MaxTrig : \A x \in 1..MaxOn :
       [](Unsubscribed(t, x) => <>(Invoked(t, x) = 1 /\ Pending(t, x) = 0))

\* C10 witness: f was handed over by a first trigger of "ready", then removed
\* by off, so that a second trigger of "ready" handed nothing over; the
\* pending invocation of f has just happened.
C10_Witness ==
  /\ snap = <<[event |-> "ready", subs |-> <<Sub("f", "ctx1")>>],
              [event |-> "ready", subs |-> <<>>]>>
  /\ last.op = "turn"
  /\ last.inv = <<[callback |-> "f", this |-> "ctx1", trig |-> 1, x |-> 1]>>
  /\ log = last.inv
  /\ events["ready"] = <<>>

\* The number of tasks handed to the scheduler by the trigger calls so far.
RECURSIVE Submitted(_)
Submitted(t) == IF t = 0 THEN 0 ELSE Len(snap[t].subs) + Submitted(t - 1)

\* C11 (each step): a step that submits tasks only appends them to the queue,
\* and a step that runs a task runs the one at the head of the queue and no
\* other: one task per turn, so one per delivered message.
C11_Step ==
  /\ Len(queue') >= Len(queue) => (log' = log /\ SubSeq(queue', 1, Len(queue)) = queue)
  /\ Len(queue') < Len(queue) =>
       /\ queue' = Tail(queue)
       /\ Len(log') = Len(log) + 1
       /\ env = "postMessage" => msgs' = msgs - 1 \/ (msgs' = msgs /\ nStray' = nStray + 1)

\* C11: the scheduler neither drops nor coalesces tasks. Every task submitted
\* is pending or has been executed, so n submissions make n executions once
\* the queue is empty; with the message queue every pending task has a
\* message of its own under way; and the queue is emptied again and again,
\* however many tasks were outstanding at once.
C11_NoTaskDroppedOrCoalesced ==
  /\ [](Len(log) + Len(queue) = Submitted(Len(snap)))
  /\ [](env = "postMessage" => msgs >= Len(queue))
  /\ [][C11_Step]_vars
  /\ []<>(queue = <<>>)

\* C11 witness: with the message queue, one trigger submitted two tasks, which
\* were outstanding together, and both have been executed, each on a message
\* of its own.
C11_Witness ==
  /\ env = "postMessage"
  /\ snap = <<[event |-> "ready", subs |-> <<Sub("f", "ctx1"), Sub("g", "ctx1")>>]>>
  /\ Len(log) = 2 /\ queue = <<>> /\ msgs = 0 /\ nStray = 0

\* C12: the initialisation throws exactly in the hosts that have neither
\* process.nextTick nor window; where it throws there is no scheduling
\* function, so nothing is ever registered, submitted or invoked; and in every
\* other environment a submit call only queues the task and invokes nothing.
C12_FailsFastWithoutAsync ==
  /\ \A h \in Hosts :
       /\ Mechanism(h) \in Environments
       /\ DeferInitThrows(Mechanism(h)) <=> (~h.nextTick /\ ~h.window)
  /\ env \in {Mechanism(h) : h \in Hosts}
  /\ DeferInitThrows(env) =>
       /\ ~ENABLED Next
       /\ queue = <<>> /\ msgs = 0 /\ log = <<>> /\ snap = <<>> /\ events = EmptyObject
  /\ ~DeferInitThrows(env) =>
       \A cb \in Functions :
         LET s == Defer(env, Sched, Bind(cb, Null, 0, 0))
         IN s.inv = <<>> /\ s.queue = Append(queue, Bind(cb, Null, 0, 0))

\* C12 witness: a host without process.nextTick and without window, in which
\* the initialisation has thrown.
C12_Witness ==
  /\ env = Mechanism([nextTick |-> FALSE, window |-> FALSE, postMessage |-> FALSE])
  /\ DeferInitThrows(env)
  /\ ~Loaded

\* C13 (as claimed): a trigger of an event that has no subscriber, whether
\* the event has no entry or an empty one, returns the entity, leaves the
\* scheduler as it is, and changes the registry at most by giving the event
\* an empty entry; so does a trigger of any other name never subscribed.
C13_TriggerWithoutSubscribers ==
  /\ \A e \in EventNames :
       Subs(events, e) = <<>> =>
         LET r == Trigger(env, events, Sched, e, Len(snap) + 1)
         IN /\ r.result = "this"
            /\ r.sched = Sched
            /\ r.events = Put(events, e, <<>>)
            /\ OthersUnchanged(events, r.events, e)
  /\ (last.op = "trigger" /\ last.form = "inherited") =>
       (last.result = "this" /\ foreign = {})

\* C14 (as claimed): on with a function stores the context it is given,
\* whatever its value, and the no-context sentinel only when the context is
\* omitted; and on(e, f, c) followed by off(e, f, c) leaves e's sequence as it
\* was before the on.
C14_OnRecordsGivenContext ==
  \A a \in OnArgs :
    IsFunction(a[2]) =>
      LET r == On(events, a[1], a[2], a[3])
          subs == r.events[a[1]]
      IN /\ subs[Len(subs)].context = (IF a[3] = Undefined THEN Null ELSE a[3])
         /\ a[3] # Undefined =>
              Subs(Off(r.events, a[1], a[2], a[3]).events, a[1]) = Subs(events, a[1])

\* The contexts the on calls supply.
Supplied == {a[3] : a \in OnArgs} \ {Undefined}

\* C15 (as claimed): in every reachable state, every event name of the
\* registry maps to a sequence (possibly empty) of subscriptions, every stored
\* callback is a function, and every stored context is a supplied value or
\* null, never undefined.
C15_RegistryWellFormed ==
  /\ \A k \in foreign : FALSE
  /\ \A k \in DOMAIN events :
       /\ events[k] \in Seq([callback : Functions, context : Supplied \cup {Null}])
       /\ \A i \in 1..Len(events[k]) :
            /\ IsFunction(events[k][i].callback)
            /\ events[k][i].context # Undefined

\* C16, for the event names that Object.prototype does not define: on with a
\* function leaves under the event the sequence it found with one entry more
\* at its end, whether or not an equal entry is there already, and leaves every
\* other event as it was; and a trigger hands the event's subscriptions to the
\* scheduler one by one in the order of the sequence.
C16_AppendsInOrder ==
  /\ \A a \in OnArgs :
       IsFunction(a[2]) =>
         LET r == On(events, a[1], a[2], a[3])
             before == Subs(events, a[1])
             after == r.events[a[1]]
         IN /\ r.result = "this"
            /\ Len(after) = Len(before) + 1
            /\ SubSeq(after, 1, Len(before)) = before
            /\ after[Len(after)].callback = a[2]
            /\ OthersUnchanged(events, r.events, a[1])
  /\ \A e \in EventNames :
       LET h == Handed(events, e)
           subs == Subs(events, e)
       IN /\ Len(h) = Len(subs)
          /\ \A i \in 1..Len(subs) :
               h[i].callback = subs[i].callback /\ h[i].context = subs[i].context

\* C16 (as claimed): the same for every event name: an on call with a
\* function, whatever the name, returns after appending its entry.
C16_OnAppendsTriggerInOrder ==
  /\ C16_AppendsInOrder
  /\ (last.op = "on" /\ last.form = "inherited") => last.result = "this"

\* C17 (each step): a trigger call leaves every event's sequence as it was,
\* the triggered event's included, and only gives that event an empty entry
\* when it had none.
C17_Step ==
  (last'.op = "trigger" /\ last'.form = "") =>
    LET e == snap'[Len(snap')].event
    IN /\ events' = Put(events, e, Subs(events, e))
       /\ Subs(events', e) = snap'[Len(snap')].subs

\* The trigger calls t1 and t2 were of the same event and found the same
\* subscriptions.
SameTwice(t1, t2) == t1 < t2 /\ t2 <= Len(snap) /\ snap[t1] = snap[t2]

\* C17: trigger does not consume subscriptions. A trigger changes the
\* registry at most by an empty entry for the event; a second trigger of the
\* event right after a first hands the same subscriptions over again; and when
\* two triggers of an event found the same subscriptions, each of them is
\* eventually invoked twice in all, once for each trigger.
C17_TriggerDoesNotConsume ==
  /\ [][C17_Step]_vars
  /\ [](\A e \in EventNames :
          LET t == Len(snap) + 1
              r1 == Trigger(env, events, Sched, e, t)
              r2 == Trigger(env, r1.events, r1.sched, e, t + 1)
          IN /\ r2.events = r1.events
             /\ Subs(r2.events, e) = Subs(events, e)
             /\ Len(r2.sched.queue) = Len(queue) + 2 * Len(Subs(events, e)))
  /\ \A t1, t2 \in 1..MaxTrig :
       [](SameTwice(t1, t2) =>
            <>(SameTwice(t1, t2) /\ \A x \in 1..Len(snap[t1].subs) :
                 /\ Invoked(t1, x) = 1 /\ Invoked(t2, x) = 1
                 /\ Pending(t1, x) + Pending(t2, x) = 0))

\* C17 witness: "ready" was triggered twice with f subscribed, f has been
\* invoked twice, and f is still subscribed.
C17_Witness ==
  /\ snap = <<[event |-> "ready", subs |-> <<Sub("f", "ctx2")>>],
              [event |-> "ready", subs |-> <<Sub("f", "ctx2")>>]>>
  /\ queue = <<>>
  /\ log = <<[callback |-> "f", this |-> "ctx2", trig |-> 1, x |-> 1],
             [callback |-> "f", this |-> "ctx2", trig |-> 2, x |-> 1]>>
  /\ events["ready"] = <<Sub("f", "ctx2")>>

\* The tasks a trigger call makes of the subscriptions subs.
Tasks(subs, t) == [x \in 1..Len(subs) |-> Bind(subs[x].callback, subs[x].context, t, x)]

\* C18 (each step): a call on one entity leaves the events of the other as
\* they were, and a trigger on one entity submits the subscriptions that
\* entity holds under the event, and nothing else.
C18_Step ==
  /\ last'.op \in {"on", "off", "trigger"} => events2' = events2
  /\ last'.op \in {"on2", "off2", "trigger2"} => events' = events
  /\ last'.op \in {"turn", "stray"} => (events' = events /\ events2' = events2)
  /\ last'.op = "trigger" =>
       queue' = queue \o Tasks(Subs(events, snap'[Len(snap')].event), Len(snap'))
  /\ last'.op = "trigger2" =>
       queue' = queue \o Tasks(Subs(events2, snap'[Len(snap')].event), Len(snap'))
  /\ last'.op \in {"on", "off", "on2", "off2"} => queue' = queue

\* C18: each entity has its own subscriptions: on, off (off() included) and
\* trigger on one entity never change the subscriptions of the other and
\* never submit the other's subscriptions, in any interleaving of the calls.
C18_EntitiesAreIndependent == [][C18_Step]_vars

\* C18 witness: both entities had a subscriber under "ready"; off() on the
\* second entity has just cleared its events and left the first entity's.
C18_Witness ==
  /\ last.op = "off2" /\ last.form = "all" /\ last.n = 1
  /\ events2 = EmptyObject
  /\ DOMAIN events = {"ready"} /\ events["ready"] = <<Sub("f", "ctx1")>>
  /\ snap = <<[event |-> "ready", subs |-> <<Sub("g", Null)>>]>>

\* How many tasks of trigger call t are in the sequence s of tasks or of
\* invocations.
CountOf(s, t) == Cardinality({i \in 1..Len(s) : s[i].trig = t})

\* C19 (each step): once a trigger call has returned, no step adds a task to
\* it; an on call, made between turns or from inside a callback, submits
\* nothing; and a turn only moves the task it runs from the queue to the log.
C19_Step ==
  /\ \A t \in 1..Len(snap) :
       CountOf(queue', t) + CountOf(log', t) = CountOf(queue, t) + CountOf(log, t)
  /\ last'.op = "on" => (queue' = queue /\ log' = log)
  /\ (last'.op = "turn" /\ last'.form = "on") =>
       /\ queue' = Tail(queue)
       /\ log' = Append(log, Invoke(Head(queue)))
       /\ Len(Subs(events', snap[Head(queue).trig].event))
            = Len(Subs(events, snap[Head(queue).trig].event)) + 1

\* C19: the invocations of a trigger call are those of the subscriptions the
\* event held when the call was made: for every trigger call, the tasks
\* pending and invoked are one for each of these and no other, whatever has
\* been subscribed since, between turns or from inside a callback of the same
\* trigger; a subscription made since is handed over by the next trigger.
C19_SnapshotAtTrigger ==
  /\ [][C19_Step]_vars
  /\ [](\A t \in 1..Len(snap) :
          /\ CountOf(queue, t) + CountOf(log, t) = Len(snap[t].subs)
          /\ \A i \in 1..Len(log) :
               log[i].trig = t =>
                 /\ log[i].x \in 1..Len(snap[t].subs)
                 /\ log[i].callback = snap[t].subs[log[i].x].callback
                 /\ log[i].this = snap[t].subs[log[i].x].context)
  /\ [](\A e \in EventNames : Len(Handed(events, e)) = Len(Subs(events, e)))

\* C19 witness: f, subscribed alone under "ready" when "ready" was triggered,
\* has just been invoked and has subscribed g under "ready" from inside; the
\* trigger has no task left, and g has not been invoked.
C19_Witness ==
  /\ last.op = "turn" /\ last.form = "on"
  /\ snap = <<[event |-> "ready", subs |-> <<Sub("f", "ctx1")>>]>>
  /\ events["ready"] = <<Sub("f", "ctx1"), Sub("g", "ctx1")>>
  /\ queue = <<>>
  /\ log = <<[callback |-> "f", this |-> "ctx1", trig |-> 1, x |-> 1]>>

\* The tasks invoked and the tasks pending, in this order, each named by its
\* trigger call and its place in the loop of that call.
Served == [i \in 1..(Len(log) + Len(queue)) |->
             IF i <= Len(log) THEN <<log[i].trig, log[i].x>>
             ELSE <<queue[i - Len(log)].trig, queue[i - Len(log)].x>>]

\* Task a was submitted before task b.
Before(a, b) == a[1] < b[1] \/ (a[1] = b[1] /\ a[2] < b[2])

\* C20 (each step, message queue): a delivered message runs one task at
\* most, the one submitted first among those pending; and no message runs
\* anything while the queue is empty.
C20_Step ==
  env = "postMessage" =>
    /\ Len(log') <= Len(log) + 1
    /\ Len(log') > Len(log) =>
         /\ queue # <<>>
         /\ queue' = Tail(queue)
         /\ log' = Append(log, Invoke(Head(queue)))
    /\ (last'.op \in {"turn", "stray"} /\ queue = <<>>) => (queue' = queue /\ log' = log)

\* C20: with the message queue, tasks are invoked in the order of their
\* submission; a message from window with the data "nextTick" runs the first
\* pending task and no other, and nothing when the queue is empty; a message
\* from another source or with other data runs nothing.
C20_MessageQueueFifo ==
  /\ [][C20_Step]_vars
  /\ [](env = "postMessage" =>
          /\ \A i, j \in 1..Len(Served) : i < j => Before(Served[i], Served[j])
          /\ \A source \in {"window", "frame"}, data \in {"nextTick", "hello"} :
               LET s == Handle(Sched, source, data)
               IN IF source = "window" /\ data = "nextTick" /\ queue # <<>>
                    THEN s.queue = Tail(queue) /\ s.inv = <<Invoke(Head(queue))>>
                    ELSE s = Sched)

\* C20 witness: a stray "nextTick" message from window ran the first of two
\* tasks ahead of its own message, so that the last message posted by defer
\* has just found the queue empty and run nothing; the tasks ran in order.
C20_Witness ==
  /\ env = "postMessage"
  /\ last.op = "turn" /\ last.inv = <<>>
  /\ nStray = 1 /\ msgs = 0 /\ queue = <<>>
  /\ Len(log) = 2 /\ log[1].x = 1 /\ log[2].x = 2

====
